---------------------------- MODULE Spec2Model ----------------------------
(***************************************************************************)
(* Model of PaceLineModel (portable_pace_line_interactive_model_react.jsx) *)
(* : the Start/Stop/Reset clock driven by requestAnimationFrame, and the   *)
(* pure time -> position mapping with its LED head index and tail.         *)
(*                                                                         *)
(* Numbers.  JavaScript numbers are modelled as exact extended rationals   *)
(* [num, den] in lowest terms with den >= 0.  den = 0 encodes the          *)
(* non-finite values a division can produce: 0/0 is NaN, 1/0 is +Infinity  *)
(* and -1/0 is -Infinity.  Rounding error of IEEE doubles is not modelled. *)
(* Wall-clock readings (performance.now()) are whole milliseconds.         *)
(***************************************************************************)
EXTENDS Integers, Sequences, FiniteSets, TLC

VARIABLES
    poolLen,      \* useState(50)
    secPer50,     \* useState(35)
    mode,         \* useState("loop")
    turnDwell,    \* useState(0)
    ledsPerM,     \* useState(60)
    tailLen,      \* useState(3)
    running,      \* useState(false)
    t0Ref,        \* useRef(null): performance.now() at the last resume, or Null
    elapsedRef,   \* useRef(0): seconds accumulated over finished runs
    rafRef,       \* useRef(null): handle of the last frame request, or Null
    tVisual,      \* useState(0): elapsed seconds shown
    now,          \* host: the current reading of performance.now(), in ms
    frames,       \* host: handles of the frame requests that are pending
    runMs,        \* history: ms of wall clock spent running since the last reset
    lastOp        \* history: the last Start, Reset or effective Stop command

vars == <<poolLen, secPer50, mode, turnDwell, ledsPerM, tailLen, running,
          t0Ref, elapsedRef, rafRef, tVisual, now, frames, runMs, lastOp>>

params == <<poolLen, secPer50, mode, turnDwell, ledsPerM, tailLen>>
clock  == <<running, t0Ref, elapsedRef, rafRef, tVisual, frames, runMs, lastOp>>

\* the null of a ref: no clock reading and no frame handle is negative
Null == -1

-----------------------------------------------------------------------------
(* Bounds of the model *)

\* number of clock ticks the wall clock is followed for
MaxTicks == 6
\* the wall clock advances in steps of a quarter of a second
MsPerTick == 1000 \div 4
\* number of ticks of elapsed time the pace model is evaluated over
MaxPaceTicks == 26

\* contents of the "sec / 50 m" field: empty, or a numeral (as <<value>>)
SecPer50Inputs == {<<>>, <<1>>}
\* contents of the "Turn dwell" field
TurnDwellInputs == {<<>>, <<1>>}
\* contents of the "LEDs per meter" field
LedsPerMInputs == {<<>>, <<60>>}
\* contents of the "Tail length" field
TailLenInputs == {<<>>, <<3>>}

-----------------------------------------------------------------------------
(* JavaScript numbers as extended rationals *)

Abs(i) == IF i < 0 THEN -i ELSE i

Sign(i) == IF i < 0 THEN -1 ELSE IF i > 0 THEN 1 ELSE 0

RECURSIVE GCD(_, _)
GCD(a, b) == IF b = 0 THEN a ELSE GCD(b, a % b)

\* n/d in lowest terms; x/0 is NaN (x = 0) or an infinity
Rat(n, d) ==
    IF d = 0 THEN [num |-> Sign(n), den |-> 0]
    ELSE LET g == GCD(Abs(n), Abs(d))
             s == Sign(d)
         IN  [num |-> (s * n) \div g, den |-> (s * d) \div g]

R(i) == [num |-> i, den |-> 1]

NaN == [num |-> 0, den |-> 0]

IsNaN(a) == a.num = 0 /\ a.den = 0

IsFinite(a) == a.den > 0

Add(a, b) == Rat(a.num * b.den + b.num * a.den, a.den * b.den)

Sub(a, b) == Rat(a.num * b.den - b.num * a.den, a.den * b.den)

Mul(a, b) == Rat(a.num * b.num, a.den * b.den)

Div(a, b) == Rat(a.num * b.den, a.den * b.num)

\* a < b; false when either side is NaN
Lt(a, b) ==
    /\ ~IsNaN(a)
    /\ ~IsNaN(b)
    /\ IF a.den = 0 /\ b.den = 0 THEN a.num < b.num
       ELSE a.num * b.den < b.num * a.den

Gt(a, b) == Lt(b, a)

\* a <= b; false when either side is NaN
Le(a, b) == ~IsNaN(a) /\ ~IsNaN(b) /\ ~Lt(b, a)

Ge(a, b) == Le(b, a)

\* Math.floor
Floor(a) == IF a.den = 0 THEN a ELSE R(a.num \div a.den)

\* Math.round: the nearest integer, halves towards +Infinity
Round(a) == IF a.den = 0 THEN a ELSE R((2 * a.num + a.den) \div (2 * a.den))

\* Math.min and Math.max return NaN when an argument is NaN
MathMin(a, b) == IF IsNaN(a) \/ IsNaN(b) THEN NaN ELSE IF Lt(b, a) THEN b ELSE a

MathMax(a, b) == IF IsNaN(a) \/ IsNaN(b) THEN NaN ELSE IF Lt(a, b) THEN b ELSE a

\* n % 2 === 1 for a number n (the remainder has the sign of n)
IsOddLap(n) == n.den = 1 /\ n.num > 0 /\ n.num % 2 = 1


-----------------------------------------------------------------------------
(* The pace model: pure functions of the component's state *)

\* const secPerM = useMemo(() => secPer50 / 50, [secPer50])
secPerM == Div(R(secPer50), R(50))

\* time to traverse the lane ignoring dwell
travelT == Mul(secPerM, R(poolLen))

\* one lap with the dwell at both ends
cycleT == Add(travelT, Mul(R(2), R(turnDwell)))

\* const n = Math.floor(t / cycleT)
lapIndex(t) == Floor(Div(t, cycleT))

\* const tc = t - n * cycleT
timeInCycle(t) == Sub(t, Mul(lapIndex(t), cycleT))

\* variant: the dwell is taken at the far wall only
lapMetersNoStartDwell(tc) ==
    IF Gt(tc, travelT) THEN R(poolLen) ELSE Div(tc, secPerM)

\* the position within the lap, before the ping-pong reversal
lapMeters(tc) ==
    IF Lt(tc, R(turnDwell)) THEN R(0)
    ELSE IF Gt(tc, Add(travelT, R(turnDwell))) THEN R(poolLen)
    ELSE Div(Sub(tc, R(turnDwell)), secPerM)

\* variant: no reversal
reverseNever(n, x) == x

\* variant: the reversal does not look at the mode
reverseInAnyMode(n, x) == IF IsOddLap(n) THEN Sub(R(poolLen), x) ELSE x

\* variant: the reversal is on the even laps, n % 2 === 0
reverseOnEvenLaps(n, x) ==
    IF mode = "pingpong" /\ n.den = 1 /\ n.num % 2 = 0 THEN Sub(R(poolLen), x) ELSE x

\* if (mode === "pingpong" && n % 2 === 1) x = poolLen - x
reverseOnOddLaps(n, x) ==
    IF mode = "pingpong" /\ IsOddLap(n) THEN Sub(R(poolLen), x) ELSE x

\* return Math.max(0, Math.min(poolLen, x))
clampToPool(x) == MathMax(R(0), MathMin(R(poolLen), x))

\* variant: linear travel from the end of the first dwell, no laps, no clamp
timeToMetersNoLaps(t) == Div(Sub(t, R(turnDwell)), secPerM)

timeToMeters(t) ==
    IF cycleT = R(0) THEN R(0)
    ELSE clampToPool(reverseOnOddLaps(lapIndex(t), lapMeters(timeInCycle(t))))

xMeters == timeToMeters(tVisual)

headIndex == Round(Mul(xMeters, R(ledsPerM)))

\* variant: every candidate is pushed
RECURSIVE tailUpToUnfiltered(_)
tailUpToUnfiltered(k) ==
    IF k = 0 THEN <<>>
    ELSE Append(tailUpToUnfiltered(k - 1),
                Div(Sub(headIndex, R(k - 1)), R(ledsPerM)))

\* the first k candidates of the tail loop, those outside the pool left out
RECURSIVE tailUpTo(_)
tailUpTo(k) ==
    IF k = 0 THEN <<>>
    ELSE LET idx == Sub(headIndex, R(k - 1))
             m   == Div(idx, R(ledsPerM))
         IN  IF Ge(m, R(0)) /\ Le(m, R(poolLen))
             THEN Append(tailUpTo(k - 1), m)
             ELSE tailUpTo(k - 1)

tailMeters == tailUpTo(tailLen)

-----------------------------------------------------------------------------
(* The host: the wall clock and the frame requests *)

\* (performance.now() - t0Ref.current) / 1000
liveDelta == Rat(now - t0Ref, 1000)

\* performance.now() moves on by one tick
Tick ==
    /\ now < MaxTicks * MsPerTick
    /\ now' = now + MsPerTick
    /\ runMs' = IF running THEN runMs + MsPerTick ELSE runMs
    /\ UNCHANGED <<params, running, t0Ref, elapsedRef, rafRef, tVisual, frames, lastOp>>

-----------------------------------------------------------------------------
(* Start / Stop / Reset and the animation loop *)

\* loop(): rafRef.current = requestAnimationFrame(callback), given the
\* requests pending when it is called.  The host returns a handle that no
\* request and no ref holds; handles are only ever compared for equality.
loopRequest(pending) ==
    LET h == CHOOSE h \in 1..(Cardinality(pending) + 2) : h \notin pending /\ h # rafRef
    IN  /\ rafRef' = h
        /\ frames' = pending \cup {h}

\* variant: start without the check of running
startUnguarded ==
    /\ running' = TRUE
    /\ t0Ref' = now
    /\ loopRequest(frames)
    /\ lastOp' = IF running THEN "start-while-running" ELSE "start"
    /\ UNCHANGED <<params, elapsedRef, tVisual, now, runMs>>

start ==
    /\ IF ~running
       THEN /\ running' = TRUE
            /\ t0Ref' = now
            /\ loopRequest(frames)
            /\ lastOp' = "start"
       ELSE /\ UNCHANGED <<running, t0Ref, rafRef, frames>>
            /\ lastOp' = "start-while-running"
    /\ UNCHANGED <<params, elapsedRef, tVisual, now, runMs>>

\* variant: stop() without cancelAnimationFrame
stopEffectNoCancel ==
    IF running
    THEN /\ running' = FALSE
         /\ rafRef' = Null
         /\ t0Ref' = Null
         /\ UNCHANGED frames
    ELSE UNCHANGED <<running, frames, rafRef, t0Ref>>

\* the effect of stop() on running, the refs and the pending requests
stopEffect ==
    IF running
    THEN /\ running' = FALSE
         /\ frames' = IF rafRef # Null THEN frames \ {rafRef} ELSE frames
         /\ rafRef' = Null
         /\ t0Ref' = Null
    ELSE UNCHANGED <<running, frames, rafRef, t0Ref>>

\* variant: stop() does not accumulate the elapsed time
stopElapsedDropped == elapsedRef

\* elapsedRef.current after stop()
stopElapsed ==
    IF running /\ t0Ref # Null THEN Add(elapsedRef, liveDelta) ELSE elapsedRef

stop ==
    /\ stopEffect
    /\ elapsedRef' = stopElapsed
    /\ lastOp' = IF running THEN "stop" ELSE lastOp
    /\ UNCHANGED <<params, tVisual, now, runMs>>

reset ==
    /\ stopEffect
    /\ elapsedRef' = R(0)
    /\ tVisual' = R(0)
    /\ runMs' = 0
    /\ lastOp' = IF running THEN "reset-while-running" ELSE "reset"
    /\ UNCHANGED <<params, now>>

\* the host runs the callback of the pending request h
Frame(h) ==
    /\ h \in frames
    /\ IF t0Ref = Null
       THEN /\ frames' = frames \ {h}
            /\ UNCHANGED <<rafRef, tVisual>>
       ELSE /\ tVisual' = Add(elapsedRef, liveDelta)
            /\ loopRequest(frames \ {h})
    /\ UNCHANGED <<params, running, t0Ref, elapsedRef, now, runMs, lastOp>>

-----------------------------------------------------------------------------
(* The controls *)

\* parseFloat(e.target.value || "0") and parseInt(e.target.value || "1")
parseOr(text, default) == IF text = <<>> THEN default ELSE text[1]

setPoolLen(v) ==
    /\ poolLen' = v
    /\ UNCHANGED <<secPer50, mode, turnDwell, ledsPerM, tailLen, clock, now>>

setSecPer50(text) ==
    /\ secPer50' = parseOr(text, 0)
    /\ UNCHANGED <<poolLen, mode, turnDwell, ledsPerM, tailLen, clock, now>>

setMode(v) ==
    /\ mode' = v
    /\ UNCHANGED <<poolLen, secPer50, turnDwell, ledsPerM, tailLen, clock, now>>

setTurnDwell(text) ==
    /\ turnDwell' = parseOr(text, 0)
    /\ UNCHANGED <<poolLen, secPer50, mode, ledsPerM, tailLen, clock, now>>

setLedsPerM(text) ==
    /\ ledsPerM' = parseOr(text, 1)
    /\ UNCHANGED <<poolLen, secPer50, mode, turnDwell, tailLen, clock, now>>

setTailLen(text) ==
    /\ tailLen' = parseOr(text, 0)
    /\ UNCHANGED <<poolLen, secPer50, mode, turnDwell, ledsPerM, clock, now>>

-----------------------------------------------------------------------------

Init ==
    /\ poolLen = 50
    /\ secPer50 = 35
    /\ mode = "loop"
    /\ turnDwell = 0
    /\ ledsPerM = 60
    /\ tailLen = 3
    /\ running = FALSE
    /\ t0Ref = Null
    /\ elapsedRef = R(0)
    /\ rafRef = Null
    /\ tVisual = R(0)
    /\ now = 0
    /\ frames = {}
    /\ runMs = 0
    /\ lastOp = "none"

Next ==
    \/ Tick
    \/ start
    \/ stop
    \/ reset
    \/ \E h \in frames : Frame(h)
    \/ \E v \in {25, 50} : setPoolLen(v)
    \/ \E text \in SecPer50Inputs : setSecPer50(text)
    \/ \E v \in {"loop", "pingpong"} : setMode(v)
    \/ \E text \in TurnDwellInputs : setTurnDwell(text)
    \/ \E text \in LedsPerMInputs : setLedsPerM(text)
    \/ \E text \in TailLenInputs : setTailLen(text)

Spec == Init /\ [][Next]_vars

-----------------------------------------------------------------------------
(* The pace model on its own: the component as constructed, paused with    *)
(* any elapsed time shown, and its controls edited.                        *)

InitPace ==
    /\ poolLen = 50
    /\ secPer50 = 35
    /\ mode = "loop"
    /\ turnDwell = 0
    /\ ledsPerM = 60
    /\ tailLen = 3
    /\ \E k \in 0..MaxPaceTicks :
          /\ now = k * MsPerTick
          /\ runMs = k * MsPerTick
          /\ elapsedRef = Rat(k * MsPerTick, 1000)
          /\ tVisual = Rat(k * MsPerTick, 1000)
          /\ lastOp = IF k = 0 THEN "none" ELSE "stop"
    /\ running = FALSE
    /\ t0Ref = Null
    /\ rafRef = Null
    /\ frames = {}

NextPace ==
    \/ \E v \in {25, 50} : setPoolLen(v)
    \/ \E text \in SecPer50Inputs : setSecPer50(text)
    \/ \E v \in {"loop", "pingpong"} : setMode(v)
    \/ \E text \in TurnDwellInputs : setTurnDwell(text)
    \/ \E text \in LedsPerMInputs : setLedsPerM(text)
    \/ \E text \in TailLenInputs : setTailLen(text)

PaceSpec == InitPace /\ [][NextPace]_vars

-----------------------------------------------------------------------------
(* Vocabulary of the properties *)

\* poolLength > 0, secondsPer50m > 0, turnDwell >= 0, mode Loop or PingPong
ValidParams ==
    /\ poolLen > 0
    /\ secPer50 > 0
    /\ turnDwell >= 0
    /\ mode \in {"loop", "pingpong"}

Zero == R(0)

Pool == R(poolLen)

Dwell == R(turnDwell)

\* the time shown, and the same instant k cycles later
tAfterCycles(k) == Add(tVisual, Mul(R(k), cycleT))

\* the time shown, and the instant k clock ticks later
tAfterTicks(k) == Add(tVisual, Rat(k * MsPerTick, 1000))

InTravel(t) ==
    /\ Ge(timeInCycle(t), Dwell)
    /\ Le(timeInCycle(t), Add(travelT, Dwell))

InStartDwell(t) == Lt(timeInCycle(t), Dwell)

InEndDwell(t) ==
    /\ Gt(timeInCycle(t), Add(travelT, Dwell))
    /\ Lt(timeInCycle(t), cycleT)

Strictly(a, x, b) == Lt(a, x) /\ Lt(x, b)

-----------------------------------------------------------------------------
(* C1: for valid parameters and every time t >= 0 the position             *)
(* timeToMeters(t) lies in [0, poolLen].                                   *)
C1_Bounded ==
    ValidParams =>
        \A k \in 0..2 :
            /\ Le(Zero, timeToMeters(tAfterCycles(k)))
            /\ Le(timeToMeters(tAfterCycles(k)), Pool)

C1_Witness ==
    /\ ValidParams
    /\ turnDwell > 0
    /\ Ge(lapIndex(tVisual), R(1))
    /\ InEndDwell(tVisual)
    /\ xMeters = Pool

(* C2: in ping-pong mode with valid parameters, one cycle later the lap    *)
(* parity has flipped and the position is mirrored, position(t + cycleT) = *)
(* poolLen - position(t), and two cycles later the position is the same.   *)
C2_PingPongSymmetry ==
    (ValidParams /\ mode = "pingpong") =>
        /\ IsOddLap(lapIndex(tAfterCycles(1))) # IsOddLap(lapIndex(tVisual))
        /\ timeToMeters(tAfterCycles(1)) = Sub(Pool, timeToMeters(tVisual))
        /\ timeToMeters(tAfterCycles(2)) = timeToMeters(tVisual)

C2_Witness ==
    /\ ValidParams
    /\ mode = "pingpong"
    /\ IsOddLap(lapIndex(tVisual))
    /\ Strictly(Zero, xMeters, Pool)
    /\ xMeters # Sub(Pool, xMeters)

(* C3: in loop mode with valid parameters the position is periodic,        *)
(* position(t) = position(t + cycleT); it is the unreflected position      *)
(* within the lap, and it is 0 at every cycle boundary.                    *)
C3_LoopPeriodic ==
    (ValidParams /\ mode = "loop") =>
        /\ timeToMeters(tAfterCycles(1)) = timeToMeters(tVisual)
        /\ timeToMeters(tVisual) = lapMeters(timeInCycle(tVisual))
        /\ (timeInCycle(tVisual) = Zero => timeToMeters(tVisual) = Zero)
        /\ timeToMeters(Mul(Add(lapIndex(tVisual), R(1)), cycleT)) = Zero

C3_Witness ==
    /\ ValidParams
    /\ mode = "loop"
    /\ IsOddLap(lapIndex(tVisual))
    /\ Strictly(Zero, xMeters, Pool)

(* C4 as stated: with a dwell d > 0, in any mode and any lap, the position *)
(* is 0 while timeInCycle < d and poolLen while timeInCycle is in          *)
(* (travelT + d, cycleT).                                                  *)
C4_DwellHoldsAnyLap ==
    (ValidParams /\ turnDwell > 0) =>
        /\ (InStartDwell(tVisual) => xMeters = Zero)
        /\ (InEndDwell(tVisual) => xMeters = Pool)

(* C4 amended: with a dwell d > 0, in loop mode and on the even laps of    *)
(* ping-pong mode the position is 0 while timeInCycle < d and poolLen      *)
(* while timeInCycle is in (travelT + d, cycleT); on the odd laps of       *)
(* ping-pong mode the two walls are exchanged.                             *)
C4_DwellHolds ==
    (ValidParams /\ turnDwell > 0) =>
        \A k \in 0..1 :
            LET t == tAfterCycles(k)
                reversed == mode = "pingpong" /\ IsOddLap(lapIndex(t))
            IN  /\ (InStartDwell(t) =>
                      timeToMeters(t) = IF reversed THEN Pool ELSE Zero)
                /\ (InEndDwell(t) =>
                      timeToMeters(t) = IF reversed THEN Zero ELSE Pool)

C4_Witness ==
    /\ ValidParams
    /\ turnDwell > 0
    /\ mode = "pingpong"
    /\ IsOddLap(lapIndex(tVisual))
    /\ InStartDwell(tVisual)
    /\ xMeters = Pool

(* C8: degenerate inputs are absorbed: when cycleT is zero the position is *)
(* 0, and with zero pace (secPer50 = 0), any dwell >= 0 and any t >= 0 no  *)
(* division by zero is evaluated and the position is a defined value in    *)
(* [0, poolLen].                                                           *)
C8_DegenerateAbsorbed ==
    /\ (cycleT = Zero => xMeters = Zero)
    /\ (secPer50 = 0 /\ turnDwell >= 0) =>
          /\ ~(cycleT # Zero /\ InTravel(tVisual) /\ secPerM = Zero)
          /\ IsFinite(xMeters)
          /\ Le(Zero, xMeters)
          /\ Le(xMeters, Pool)

(* C9: for valid parameters, in loop mode or on an even lap of ping-pong   *)
(* mode, for two times t1 < t2 of the same lap that both lie in the travel *)
(* segment [dwell, travelT + dwell], position(t1) < position(t2), and the  *)
(* position there is (timeInCycle - dwell) / secPerM.                      *)
C9_MonotonicTravel ==
    (ValidParams /\ (mode = "loop" \/ ~IsOddLap(lapIndex(tVisual)))) =>
        \A k \in 1..MaxPaceTicks :
            LET t1 == tVisual
                t2 == tAfterTicks(k)
            IN  (/\ lapIndex(t1) = lapIndex(t2)
                 /\ InTravel(t1)
                 /\ InTravel(t2)) =>
                    /\ Lt(timeToMeters(t1), timeToMeters(t2))
                    /\ timeToMeters(t1) = Div(Sub(timeInCycle(t1), Dwell), secPerM)
                    /\ timeToMeters(t2) = Div(Sub(timeInCycle(t2), Dwell), secPerM)

C9_Witness ==
    /\ ValidParams
    /\ mode = "pingpong"
    /\ turnDwell > 0
    /\ lapIndex(tVisual) = R(2)
    /\ lapIndex(tAfterTicks(1)) = R(2)
    /\ InTravel(tVisual)
    /\ InTravel(tAfterTicks(1))
    /\ Lt(Zero, xMeters)

\* the tail candidates (headIndex - k) / ledsPerM, k = 0 .. tailLen - 1
tailCandidates == [i \in 1..tailLen |-> Div(Sub(headIndex, R(i - 1)), R(ledsPerM))]

InPool(m) == Ge(m, Zero) /\ Le(m, Pool)

(* C10: for a head position in [0, poolLen], ledsPerM > 0 and tailLen >= 0 *)
(* the tail has at most tailLen elements, each within [0, poolLen], in     *)
(* strictly decreasing order; it is the candidates (headIndex - k) /       *)
(* ledsPerM in the order of k, those outside [0, poolLen] left out.        *)
C10_TailContained ==
    (InPool(xMeters) /\ ledsPerM > 0 /\ tailLen >= 0) =>
        /\ headIndex = Round(Mul(xMeters, R(ledsPerM)))
        /\ Len(tailMeters) <= tailLen
        /\ \A i \in 1..Len(tailMeters) : InPool(tailMeters[i])
        /\ \A i \in 1..Len(tailMeters) :
              \A j \in 1..Len(tailMeters) :
                  i < j => Gt(tailMeters[i], tailMeters[j])
        /\ tailMeters = SelectSeq(tailCandidates, InPool)

C10_Witness ==
    /\ ledsPerM > 0
    /\ Lt(Zero, xMeters)
    /\ tailLen = 3
    /\ Len(tailMeters) = 2
    /\ tailMeters[1] = Div(headIndex, R(ledsPerM))
    /\ tailMeters[2] = Zero

-----------------------------------------------------------------------------
(* The clock *)

\* accumulated offset + (now - resume reference): what a frame would show
liveElapsed ==
    IF t0Ref # Null THEN Add(elapsedRef, liveDelta) ELSE elapsedRef

FrameStep == \E h \in frames : Frame(h)

(* C5: without a reset since, the elapsed time a frame computes, the       *)
(* accumulated offset plus (now - resume reference), is the wall-clock     *)
(* time the simulation has been running since the last reset; time spent   *)
(* stopped is not counted.  Stop adds exactly the in-flight delta to the   *)
(* accumulated offset, and the elapsed time shown never decreases except   *)
(* by a reset, in particular not from before a stop to after the resume.   *)
C5_PauseResume ==
    /\ [](liveElapsed = Rat(runMs, 1000))
    /\ [](running <=> t0Ref # Null)
    /\ [][FrameStep => tVisual' = Rat(runMs, 1000)]_vars
    /\ [][(running /\ stop) =>
            /\ elapsedRef' = Add(elapsedRef, Rat(now - t0Ref, 1000))
            /\ elapsedRef' = liveElapsed]_vars
    /\ [][~reset => Le(tVisual, tVisual')]_vars

C5_Witness ==
    /\ running
    /\ Gt(elapsedRef, Zero)
    /\ now > t0Ref
    /\ tVisual = liveElapsed
    /\ runMs < now
    /\ lastOp = "start"

(* C6: start while running changes nothing: the resume reference, the      *)
(* accumulated offset and the pending frame request stay as they are and   *)
(* no second chain of frame requests is created; at most one frame request *)
(* is pending at any time, and while running it is the one rafRef holds.   *)
C6_StartIdempotent ==
    /\ [][(running /\ start) =>
            UNCHANGED <<running, t0Ref, elapsedRef, rafRef, frames, tVisual>>]_vars
    /\ [](Cardinality(frames) <= 1)
    /\ [](frames = IF running THEN {rafRef} ELSE {})

C6_Witness ==
    /\ lastOp = "start-while-running"
    /\ running
    /\ now > t0Ref
    /\ Gt(tVisual, elapsedRef)
    /\ frames = {rafRef}

(* C7: after reset, from a running or a stopped state, the simulation is   *)
(* not running, no frame request is pending, the accumulated offset is 0   *)
(* and the elapsed time shown is 0, and this stays so until the next start *)
(* : no frame callback changes the elapsed time shown.                     *)
C7_ResetZeroes ==
    lastOp \in {"reset", "reset-while-running"} =>
        /\ ~running
        /\ frames = {}
        /\ rafRef = Null
        /\ t0Ref = Null
        /\ elapsedRef = Zero
        /\ tVisual = Zero

C7_Witness ==
    /\ lastOp = "reset-while-running"
    /\ now > 0
    /\ runMs = 0
    /\ tVisual = Zero
    /\ ~running

=============================================================================
